---- MODULE Spec2Model ----
(***************************************************************************)
(* Crypto Rate Sync worker (src/crypto_worker.js).                         *)
(*                                                                         *)
(* Two entry points, scheduled() and fetch(), start run().  A run is a     *)
(* chain of awaited network calls (CoinMarketCap quotes, Shopify shop id,  *)
(* Shopify metafield read, Shopify metafieldsSet); the model has one       *)
(* action per entry point and one per awaited call, so that two runs may   *)
(* interleave at every await.                                              *)
(*                                                                         *)
(* Numbers.  A price is an integer count of units of 1/Micro millionths,   *)
(* so 1e-6 is Micro units and a 6-digit decimal string is a multiple of    *)
(* Micro.  Arithmetic is exact; binary floating point error is not         *)
(* modelled.  JSON carries no NaN, so a fetched price is a finite number.  *)
(*                                                                         *)
(* Strings.  A metafield (or its absence) is a record [k, n, d]:           *)
(*   k = "null"   no metafield                                             *)
(*   k = "empty"  value ""                                                 *)
(*   k = "text"   a value parseFloat cannot read (NaN)                     *)
(*   k = "dec"    a decimal string worth n units                           *)
(*   k = "date"   the string YYYY-MM-DD of the date d = <<y, m, d>>        *)
(***************************************************************************)
EXTENDS Integers, Sequences, FiniteSets, TLC

\* ------------------------------------------------------------------ bounds
\* Price units per 1e-6 (the resolution of the price grid).
Micro == 2
\* Fetched and initially stored prices range over 0..MaxPrice units.
MaxPrice == 1
\* The runs fall on the MaxDay consecutive local dates from FirstDate on.
MaxDay == 4

\* ------------------------------------------------------- program constants
BTC_KEY == "custom_crypto_btc"
EGLD_KEY == "crypto_egld"
BTC_DATE_KEY == "custom_crypto_btc_date"
EGLD_DATE_KEY == "crypto_egld_date"
\* const EPS = 1e-6
EPS == Micro

\* symbols passed to fetchCMC, in order
Symbols == <<"BTC", "EGLD">>
SymbolSet == {"BTC", "EGLD"}
ValueKey(sym) == IF sym = "BTC" THEN BTC_KEY ELSE EGLD_KEY
DateKey(sym) == IF sym = "BTC" THEN BTC_DATE_KEY ELSE EGLD_DATE_KEY
Keys == {BTC_KEY, EGLD_KEY, BTC_DATE_KEY, EGLD_DATE_KEY}

\* the two handlers of the exported object
Runs == {"cron", "http"}

\* undefined / null
None == "null"
Truthy(s) == s # None /\ s # ""

\* ------------------------------------------------------------ string values
NoDate == <<>>
Null == [k |-> "null", n |-> 0, d |-> NoDate]
EmptyStr == [k |-> "empty", n |-> 0, d |-> NoDate]
TextStr == [k |-> "text", n |-> 0, d |-> NoDate]
DecStr(n) == [k |-> "dec", n |-> n, d |-> NoDate]
DateStr(d) == [k |-> "date", n |-> 0, d |-> d]

\* JS truthiness of meta.x?.value : a missing metafield or "" is falsy
ValueTruthy(mf) == mf.k \notin {"null", "empty"}

\* numbers as run() holds them: null, NaN, or a finite number of units
NullNum == [t |-> "null", v |-> 0]
NaN == [t |-> "nan", v |-> 0]
Num(v) == [t |-> "num", v |-> v]

\* parseFloat of a metafield value: a date string YYYY-MM-DD reads as its year
ParseFloat(mf) ==
  CASE mf.k = "dec" -> Num(mf.n)
    [] mf.k = "date" -> Num(mf.d[1] * 1000000 * Micro)
    [] OTHER -> NaN

Abs(x) == IF x < 0 THEN -x ELSE x

\* toFixed(5) in place of toFixed(6): the nearest multiple of 1e-5
ToFixed5(p) == DecStr(10 * Micro * ((2 * p + 10 * Micro) \div (20 * Micro)))

\* Number.prototype.toFixed(6): the nearest multiple of 1e-6, the larger one on a tie
ToFixed6(p) == DecStr(Micro * ((2 * p + Micro) \div (2 * Micro)))

\* ------------------------------------------------- date and holiday helpers
\* A calendar date YYYY-MM-DD is the tuple <<y, m, d>>; a JS Date at midnight
\* UTC is its day number (the Julian day number of the Gregorian date).

\* new Date(Date.UTC(y, m - 1, d)), m in 1..12; a day past the month's end
\* rolls over into the next month, as Date.UTC does
DateUTC(y, m, d) ==
  LET a == (14 - m) \div 12
      yy == y + 4800 - a
      mm == m + 12 * a - 3
  IN d + (153 * mm + 2) \div 5 + 365 * yy + yy \div 4 - yy \div 100
       + yy \div 400 - 32045

\* Date.prototype.getUTCDay: 0..6, Sunday = 0
GetUTCDay(date) == (date + 1) % 7

\* isoOf: Date -> YYYY-MM-DD
isoOf(date) ==
  LET a == date + 32044
      b == (4 * a + 3) \div 146097
      c == a - (146097 * b) \div 4
      d == (4 * c + 3) \div 1461
      e == c - (1461 * d) \div 4
      m == (5 * e + 2) \div 153
  IN << 100 * b + d - 4800 + m \div 10,
        m + 3 - 12 * (m \div 10),
        e - (153 * m + 2) \div 5 + 1 >>

\* addDays(d, n)
addDays(date, n) == date + n

\* isoWeekday without the mapping of Sunday to 7
isoWeekdaySundayZero(iso) == GetUTCDay(DateUTC(iso[1], iso[2], iso[3]))

\* isoWeekday: Monday = 1 .. Sunday = 7
isoWeekday(iso) ==
  LET dow == GetUTCDay(DateUTC(iso[1], iso[2], iso[3]))
  IN IF dow = 0 THEN 7 ELSE dow

\* orthodoxEasterGregorian without the conversion from the Julian calendar
orthodoxEasterJulianLabel(year) ==
  LET d == (19 * (year % 19) + 15) % 30
      e == (2 * (year % 4) + 4 * (year % 7) - d + 34) % 7
  IN DateUTC(year, (d + e + 114) \div 31, ((d + e + 114) % 31) + 1)

\* orthodoxEasterGregorian(year): a Date
orthodoxEasterGregorian(year) ==
  LET a == year % 4
      b == year % 7
      c == year % 19
      d == (19 * c + 15) % 30
      e == (2 * a + 4 * b - d + 34) % 7
      monthJul == (d + e + 114) \div 31
      dayJul == ((d + e + 114) % 31) + 1
      jul == DateUTC(year, monthJul, dayJul)
  IN addDays(jul, 13)

\* the twelve fixed month/day pairs with their names
FixedHolidays ==
  << <<1, 1, "Anul Nou (Ziua 1)">>, <<1, 2, "Anul Nou (Ziua 2)">>,
     <<1, 6, "Boboteaza">>, <<1, 7, "Sf. Ioan Botezatorul">>,
     <<1, 24, "Unirea Principatelor">>, <<5, 1, "Ziua Muncii">>,
     <<6, 1, "Ziua Copilului">>, <<8, 15, "Adormirea Maicii Domnului">>,
     <<11, 30, "Sf. Andrei">>, <<12, 1, "Ziua Nationala">>,
     <<12, 25, "Craciun">>, <<12, 26, "A doua zi de Craciun">> >>

\* romaniaPublicHolidaysISO(year): a set of ISO dates
romaniaPublicHolidaysISO(year) ==
  LET fixed == { <<year, FixedHolidays[i][1], FixedHolidays[i][2]>> :
                   i \in 1..Len(FixedHolidays) }
      easter == orthodoxEasterGregorian(year)
      goodFri == addDays(easter, -2)
      easterMon == addDays(easter, 1)
      pentecostSun == addDays(easter, 49)
      pentecostMon == addDays(easter, 50)
  IN fixed \cup { isoOf(x) :
                    x \in {goodFri, easter, easterMon, pentecostSun, pentecostMon} }

\* holidayName(y, iso)
holidayName(y, iso) ==
  LET hits == { i \in 1..Len(FixedHolidays) :
                  <<y, FixedHolidays[i][1], FixedHolidays[i][2]>> = iso }
  IN IF hits = {} THEN "Sarbatoare legala"
     ELSE FixedHolidays[CHOOSE i \in hits : TRUE][3]

\* isRomaniaHolidayInfo(iso)
isRomaniaHolidayInfo(iso) ==
  LET y == iso[1]
  IN IF iso \in romaniaPublicHolidaysISO(y)
     THEN [isHoliday |-> TRUE, name |-> holidayName(y, iso)]
     ELSE [isHoliday |-> FALSE, name |-> ""]

\* romaniaISODate(new Date()): the local dates the clock can show are the
\* MaxDay consecutive days from Saturday 2022-12-31 on (a plain weekend day,
\* a Sunday holiday, a Monday holiday, then plain weekdays)
FirstDate == DateUTC(2022, 12, 31)
Dates == { isoOf(addDays(FirstDate, i)) : i \in 0..(MaxDay - 1) }
DateLE(x, y) == DateUTC(x[1], x[2], x[3]) <= DateUTC(y[1], y[2], y[3])

\* ------------------------------------------------------------ pure helpers
Prices == 0..MaxPrice

NoText == <<>>
NoOut == [tag |-> "none", skipped |-> FALSE, wrote |-> FALSE, text |-> NoText]
\* throw new Error(text)
Error(text) == [tag |-> "error", skipped |-> FALSE, wrote |-> FALSE, text |-> text]
\* return { ok: true, skipped: true, reason, dateRO }
Skipped(reason) == [tag |-> "result", skipped |-> TRUE, wrote |-> FALSE, text |-> reason]
\* return { ok: true, skipped: false, wrote, ... }
Result(wrote) == [tag |-> "result", skipped |-> FALSE, wrote |-> wrote, text |-> NoText]

\* ConfigError without the test of CMC_API_KEY
ConfigErrorShopOnly(e) ==
  IF ~Truthy(e.SHOP_URL) \/ ~Truthy(e.SHOP_TOKEN)
  THEN <<"Missing SHOP_URL or SHOP_TOKEN.">>
  ELSE NoText

\* run(), lines 71-74: the message of the configuration error, or NoText
ConfigError(e) ==
  IF ~Truthy(e.SHOP_URL) \/ ~Truthy(e.SHOP_TOKEN)
  THEN <<"Missing SHOP_URL or SHOP_TOKEN.">>
  ELSE IF ~Truthy(e.CMC_API_KEY) THEN <<"Missing CMC_API_KEY.">>
  ELSE NoText

\* SkipDay without the holiday test
SkipDayWeekendOnly(f, iso) == ~f /\ isoWeekday(iso) >= 6

\* SkipDay without the force test
SkipDayIgnoresForce(f, iso) ==
  isoWeekday(iso) >= 6 \/ isRomaniaHolidayInfo(iso).isHoliday

\* run(), line 82: !force && (weekday >= 6 || holInfo.isHoliday)
SkipDay(f, iso) ==
  ~f /\ (isoWeekday(iso) >= 6 \/ isRomaniaHolidayInfo(iso).isHoliday)

\* run(), line 86
SkipReason(iso) ==
  IF isoWeekday(iso) >= 6 THEN <<"weekend">>
  ELSE <<"holiday", isRomaniaHolidayInfo(iso).name>>

\* Unauthorized that rejects a missing key only
UnauthorizedIfMissing(e, key) == Truthy(e.RUN_KEY) /\ key = None

\* fetch(), line 49: env.RUN_KEY && searchParams.get("key") !== env.RUN_KEY
Unauthorized(e, key) == Truthy(e.RUN_KEY) /\ key # e.RUN_KEY

\* fetch(), line 51: searchParams.get("force") === "1"
ForceOf(param) == param = "1"

\* fetchCMC that takes what it gets: a symbol without a numeric price is 0
fetchCMCPartial(resp) ==
  IF ~resp.ok THEN [err |-> <<"CMC fetch failed">>, result |-> None]
  ELSE IF ~resp.hasData THEN [err |-> <<"CMC response missing data">>, result |-> None]
  ELSE [err |-> NoText,
        result |-> [sym \in SymbolSet |-> resp.data[sym].price]]

\* fetchCMC, lines 231-243, on a provider response
\*   [ok, hasData, data: symbol -> [kind, price]]
\* with kind "absent" (no entry), "noquote" (no quote in the conversion
\* currency), "nonnumber" (price not of type number) or "number".
\* The first symbol that fails, in the order of the list, gives the error.
fetchCMC(resp) ==
  LET bad(i) == resp.data[Symbols[i]].kind # "number"
      fails == { i \in 1..Len(Symbols) : bad(i) }
      first == CHOOSE i \in fails : \A j \in fails : i <= j
  IN IF ~resp.ok THEN [err |-> <<"CMC fetch failed">>, result |-> None]
     ELSE IF ~resp.hasData THEN [err |-> <<"CMC response missing data">>, result |-> None]
     ELSE IF fails # {}
       THEN [err |-> IF resp.data[Symbols[first]].kind = "absent"
                     THEN <<"CMC data missing symbol", Symbols[first]>>
                     ELSE <<"CMC data missing price for", Symbols[first]>>,
             result |-> None]
     ELSE [err |-> NoText,
           result |-> [sym \in SymbolSet |-> resp.data[sym].price]]

\* getShopId without the test of r.ok
getShopIdUnchecked(resp) == [err |-> NoText, id |-> resp.id]

\* getShopId, lines 154-155
getShopId(resp) ==
  IF ~resp.ok THEN [err |-> <<"Get shop failed">>, id |-> None]
  ELSE [err |-> NoText, id |-> resp.id]

\* readCryptoMetafields without the test of data.errors
readCryptoMetafieldsNoErrors(kind, st) ==
  CASE kind = "http" -> [err |-> <<"GraphQL read failed">>, meta |-> None]
    [] OTHER -> [err |-> NoText, meta |-> st]

\* readCryptoMetafields, lines 183-191, on a response kind and the store
readCryptoMetafields(kind, st) ==
  CASE kind = "http" -> [err |-> <<"GraphQL read failed">>, meta |-> None]
    [] kind = "errors" -> [err |-> <<"GraphQL read errors">>, meta |-> None]
    [] OTHER -> [err |-> NoText, meta |-> st]

\* run(), lines 103 and 105: meta.x?.value ? parseFloat(meta.x.value) : null
OldValue(mf) == IF ValueTruthy(mf) THEN ParseFloat(mf) ELSE NullNum

\* run(), lines 104 and 106: meta.xDate?.value || null
OldDate(mf) == IF ValueTruthy(mf) THEN mf ELSE Null

\* Changed with > in place of >=
ChangedStrict(val, o) ==
  o.t = "null" \/ (o.t = "num" /\ Abs(val - o.v) > EPS)

\* run(), lines 111 and 116: old === null || Math.abs(val - old) >= EPS
\* (a comparison with NaN is false)
Changed(val, o) ==
  o.t = "null" \/ (o.t = "num" /\ Abs(val - o.v) >= EPS)

\* ItemsFor without the push of the date item
ItemsForValueOnly(sym, val, today) ==
  << [key |-> ValueKey(sym), type |-> "number_decimal", value |-> ToFixed6(val)] >>

\* run(), lines 112-113 and 117-118: the two items pushed for one symbol
ItemsFor(sym, val, today) ==
  << [key |-> ValueKey(sym), type |-> "number_decimal", value |-> ToFixed6(val)],
     [key |-> DateKey(sym), type |-> "single_line_text_field", value |-> DateStr(today)] >>

\* StageItems with one test for both symbols: any change stages all four
StageItemsTogether(rt, o, today) ==
  IF Changed(rt["BTC"], o["BTC"]) \/ Changed(rt["EGLD"], o["EGLD"])
  THEN ItemsFor("BTC", rt["BTC"], today) \o ItemsFor("EGLD", rt["EGLD"], today)
  ELSE <<>>

\* run(), lines 109-119: the staged list
StageItems(rt, o, today) ==
  (IF Changed(rt["BTC"], o["BTC"]) THEN ItemsFor("BTC", rt["BTC"], today) ELSE <<>>)
  \o (IF Changed(rt["EGLD"], o["EGLD"]) THEN ItemsFor("EGLD", rt["EGLD"], today) ELSE <<>>)

\* metafieldsSet without the test of userErrors
metafieldsSetHttpOnly(kind) ==
  CASE kind = "http" -> <<"GraphQL write failed">>
    [] OTHER -> NoText

\* metafieldsSet, lines 204-207, on a response kind:
\*   "ok"         HTTP 200, data.metafieldsSet.userErrors = []
\*   "http"       HTTP status not OK
\*   "userErrors" HTTP 200, userErrors non-empty
\*   "topErrors"  HTTP 200, only top-level errors, no data.metafieldsSet
metafieldsSet(kind) ==
  CASE kind = "http" -> <<"GraphQL write failed">>
    [] kind = "userErrors" -> <<"metafieldsSet errors">>
    [] OTHER -> NoText

\* run(), line 99: shopGID
ShopGID(id) == <<"gid://shopify/Shop/", id>>

\* metafieldsSet, line 202: items.map(x => ({ ...x, ownerId }))
WriteInput(its, ownerId) ==
  [i \in 1..Len(its) |->
     [key |-> its[i].key, type |-> its[i].type, value |-> its[i].value,
      ownerId |-> ownerId]]

\* the shop's side of the mutation: only an accepted batch is stored, whole
ApplyWrite(st, batch, kind) ==
  IF kind # "ok" THEN st
  ELSE [k \in Keys |->
          LET hits == { i \in 1..Len(batch) : batch[i].key = k }
          IN IF hits = {} THEN st[k]
             ELSE batch[CHOOSE i \in hits : \A j \in hits : j <= i].value]

\* ------------------------------------------------------------------- state
VARIABLES
  env,            \* the worker's environment bindings
  store,          \* the shop's metafields, by key
  pc,             \* per handler: "idle", the awaited call, or "done"
  req,            \* the HTTP request fetch() is about to handle
  force,          \* run()'s force argument
  todayRO,        \* run()'s todayRO
  rates,          \* run()'s rates
  shopId,         \* run()'s shopId
  old,            \* run()'s oldBTC / oldEGLD, by symbol
  items,          \* run()'s items
  out,            \* what run() returned or threw
  status,         \* the HTTP status fetch() answered with (0: none)
  calls,          \* the network calls the run has issued, in order
  seen,           \* the response the run got to each call
  startedOn,      \* the local date on which run() was called
  finishedBefore, \* the handlers that had finished when this one started
  fetchOrder      \* the handlers whose price fetch has returned prices, oldest first

vars == << env, store, pc, req, force, todayRO, rates, shopId, old, items,
           out, status, calls, seen, startedOn, finishedBefore,
                  fetchOrder >>

NoReq == [pathname |-> None, key |-> None, force |-> None]
Requests == [pathname : {"/run", "/"}, key : {None, "k1", "k2"}, force : {None, "1", "true"}]
Envs == [SHOP_URL : {None, "shop.myshopify.com"}, SHOP_TOKEN : {None, "token"},
         CMC_API_KEY : {None, "cmckey"}, RUN_KEY : {None, "k1"}]
PriorDate == isoOf(addDays(FirstDate, -1))
InitValues == {Null, EmptyStr, TextStr} \cup { DecStr(n) : n \in Prices }
\* a date field accompanies every value field that exists
InitStores ==
  { [k \in Keys |->
       IF k = BTC_KEY THEN b
       ELSE IF k = EGLD_KEY THEN e
       ELSE IF k = BTC_DATE_KEY THEN (IF b = Null THEN Null ELSE DateStr(PriorDate))
       ELSE (IF e = Null THEN Null ELSE DateStr(PriorDate))] :
    b \in InitValues, e \in InitValues }
NoRates == [sym \in SymbolSet |-> 0]
NoOld == [sym \in SymbolSet |-> NullNum]

CmcEntries ==
  { [kind |-> k, price |-> 0] : k \in {"absent", "noquote", "nonnumber"} }
  \cup { [kind |-> "number", price |-> p] : p \in Prices }
CmcResponses ==
  { [ok |-> FALSE, hasData |-> FALSE, data |-> [sym \in SymbolSet |-> [kind |-> "absent", price |-> 0]]],
    [ok |-> TRUE, hasData |-> FALSE, data |-> [sym \in SymbolSet |-> [kind |-> "absent", price |-> 0]]] }
  \cup { [ok |-> TRUE, hasData |-> TRUE, data |-> d] : d \in [SymbolSet -> CmcEntries] }
\* what a provider response is, whatever fetchCMC makes of it
CmcKind(resp) ==
  IF ~resp.ok THEN "http"
  ELSE IF ~resp.hasData THEN "nodata"
  ELSE IF \E sym \in SymbolSet : resp.data[sym].kind = "absent" THEN "lacksSymbol"
  ELSE IF \E sym \in SymbolSet : resp.data[sym].kind # "number" THEN "lacksPrice"
  ELSE "complete"
NoSeen == [cmc |-> None, shop |-> None, read |-> None, write |-> None]
ShopResponses == { [ok |-> TRUE, id |-> "1"], [ok |-> FALSE, id |-> None] }
ReadResponses == {"ok", "http", "errors"}
WriteResponses == {"ok", "http", "userErrors", "topErrors"}

Init ==
  /\ env \in Envs
  /\ store \in InitStores
  /\ pc = [r \in Runs |-> "idle"]
  /\ req = [r \in Runs |-> NoReq]
  /\ force = [r \in Runs |-> FALSE]
  /\ todayRO = [r \in Runs |-> NoDate]
  /\ rates = [r \in Runs |-> NoRates]
  /\ shopId = [r \in Runs |-> None]
  /\ old = [r \in Runs |-> NoOld]
  /\ items = [r \in Runs |-> <<>>]
  /\ out = [r \in Runs |-> NoOut]
  /\ status = [r \in Runs |-> 0]
  /\ calls = [r \in Runs |-> <<>>]
  /\ seen = [r \in Runs |-> NoSeen]
  /\ startedOn = [r \in Runs |-> NoDate]
  /\ finishedBefore = [r \in Runs |-> {}]
  /\ fetchOrder = <<>>

\* the clock does not run backwards: a run starts on or after the date any
\* earlier run saw
ClockAllows(d) == \A q \in Runs : startedOn[q] # NoDate => DateLE(startedOn[q], d)

\* run()'s local variables after a step
Locals(r, rt, sid, o, it) ==
  /\ rates' = [rates EXCEPT ![r] = rt]
  /\ shopId' = [shopId EXCEPT ![r] = sid]
  /\ old' = [old EXCEPT ![r] = o]
  /\ items' = [items EXCEPT ![r] = it]

\* scheduled() without its .catch (line 38): a rejection reaches the runtime
FinishPropagates(r, o) ==
  /\ out' = [out EXCEPT ![r] = o]
  /\ pc' = [pc EXCEPT ![r] = "done"]
  /\ status' = [status EXCEPT ![r] =
                  IF o.tag = "error" THEN 500 ELSE (IF r = "http" THEN 200 ELSE 0)]

\* run()'s promise settles, and fetch() turns it into a response (lines
\* 54-58); scheduled() swallows a rejection and answers nothing (line 38)
Finish(r, o) ==
  /\ out' = [out EXCEPT ![r] = o]
  /\ pc' = [pc EXCEPT ![r] = "done"]
  /\ status' = [status EXCEPT ![r] =
                  IF r = "http" THEN (IF o.tag = "error" THEN 500 ELSE 200) ELSE 0]

\* throw new Error(text): the run ends and its locals are gone
Throw(r, text) ==
  /\ Finish(r, Error(text))
  /\ Locals(r, NoRates, None, NoOld, <<>>)

\* run(), lines 69-89: up to the first await
RunBegin(r, f, d) ==
  /\ force' = [force EXCEPT ![r] = f]
  /\ startedOn' = [startedOn EXCEPT ![r] = d]
  /\ finishedBefore' = [finishedBefore EXCEPT ![r] = { q \in Runs : pc[q] = "done" }]
  /\ IF ConfigError(env) # NoText
     THEN /\ Finish(r, Error(ConfigError(env)))
          /\ UNCHANGED todayRO
     ELSE /\ todayRO' = [todayRO EXCEPT ![r] = d]
          /\ IF SkipDay(f, d)
             THEN Finish(r, Skipped(SkipReason(d)))
             ELSE /\ pc' = [pc EXCEPT ![r] = "fetch"]
                  /\ UNCHANGED << out, status >>
  /\ UNCHANGED << env, store, rates, shopId, old, items, calls, seen, fetchOrder >>

\* scheduled(evt, env, ctx)
Scheduled(d) ==
  /\ pc["cron"] = "idle"
  /\ ClockAllows(d)
  /\ RunBegin("cron", FALSE, d)
  /\ UNCHANGED req

\* an HTTP request reaches the worker
Request(rq) ==
  /\ pc["http"] = "idle"
  /\ pc' = [pc EXCEPT !["http"] = "arrived"]
  /\ req' = [req EXCEPT !["http"] = rq]
  /\ UNCHANGED << env, store, force, todayRO, rates, shopId, old, items, out,
                  status, calls, seen, startedOn, finishedBefore,
                  fetchOrder >>

\* fetch(req, env), up to the first await of run()
Fetch(d) ==
  /\ pc["http"] = "arrived"
  /\ ClockAllows(d)
  /\ req' = [req EXCEPT !["http"] = NoReq]
  /\ IF req["http"].pathname # "/run"
     THEN /\ pc' = [pc EXCEPT !["http"] = "done"]
          /\ status' = [status EXCEPT !["http"] = 200]
          /\ UNCHANGED << env, store, force, todayRO, rates, shopId, old, items,
                          out, calls, seen, startedOn, finishedBefore,
                  fetchOrder >>
     ELSE IF Unauthorized(env, req["http"].key)
     THEN /\ pc' = [pc EXCEPT !["http"] = "done"]
          /\ status' = [status EXCEPT !["http"] = 401]
          /\ UNCHANGED << env, store, force, todayRO, rates, shopId, old, items,
                          out, calls, seen, startedOn, finishedBefore,
                  fetchOrder >>
     ELSE RunBegin("http", ForceOf(req["http"].force), d)

\* run(), line 93: await fetchCMC(...)
FetchRates(r, resp) ==
  /\ pc[r] = "fetch"
  /\ calls' = [calls EXCEPT ![r] = Append(@, "cmc")]
  /\ seen' = [seen EXCEPT ![r].cmc = CmcKind(resp)]
  /\ IF fetchCMC(resp).err # NoText
     THEN Throw(r, fetchCMC(resp).err)
     ELSE /\ Locals(r, fetchCMC(resp).result, shopId[r], old[r], items[r])
          /\ pc' = [pc EXCEPT ![r] = "shop"]
          /\ UNCHANGED << out, status >>
  /\ fetchOrder' = IF fetchCMC(resp).err # NoText THEN fetchOrder
                   ELSE Append(fetchOrder, r)
  /\ UNCHANGED << env, store, req, force, todayRO, startedOn, finishedBefore >>

\* run(), line 98: await getShopId(...)
ResolveShop(r, resp) ==
  /\ pc[r] = "shop"
  /\ calls' = [calls EXCEPT ![r] = Append(@, "shop")]
  /\ seen' = [seen EXCEPT ![r].shop = IF resp.ok THEN "ok" ELSE "http"]
  /\ IF getShopId(resp).err # NoText
     THEN Throw(r, getShopId(resp).err)
     ELSE /\ Locals(r, rates[r], getShopId(resp).id, old[r], items[r])
          /\ pc' = [pc EXCEPT ![r] = "read"]
          /\ UNCHANGED << out, status >>
  /\ UNCHANGED << env, store, req, force, todayRO, startedOn, finishedBefore,
                  fetchOrder >>

\* run(), lines 102-124 up to the await of metafieldsSet: the read, the diff
\* and, when nothing is staged, the return
ReadAndDiff(r, kind) ==
  /\ pc[r] = "read"
  /\ calls' = [calls EXCEPT ![r] = Append(@, "read")]
  /\ seen' = [seen EXCEPT ![r].read = kind]
  /\ LET got == readCryptoMetafields(kind, store)
         o == [sym \in SymbolSet |-> OldValue(got.meta[ValueKey(sym)])]
         staged == StageItems(rates[r], o, todayRO[r])
     IN IF got.err # NoText
        THEN Throw(r, got.err)
        ELSE /\ Locals(r, rates[r], shopId[r], o, staged)
             /\ IF Len(staged) > 0
                THEN /\ pc' = [pc EXCEPT ![r] = "write"]
                     /\ UNCHANGED << out, status >>
                ELSE Finish(r, Result(FALSE))
  /\ UNCHANGED << env, store, req, force, todayRO, startedOn, finishedBefore,
                  fetchOrder >>

\* Write behind a lock: it waits while another run is at its own write
WriteExclusive(r, kind) ==
  /\ pc[r] = "write"
  /\ \A q \in Runs \ {r} : pc[q] # "write"
  /\ calls' = [calls EXCEPT ![r] = Append(@, "write")]
  /\ seen' = [seen EXCEPT ![r].write = kind]
  /\ store' = ApplyWrite(store, WriteInput(items[r], ShopGID(shopId[r])), kind)
  /\ IF metafieldsSet(kind) # NoText
     THEN Throw(r, metafieldsSet(kind))
     ELSE /\ Finish(r, Result(TRUE))
          /\ UNCHANGED << rates, shopId, old, items >>
  /\ UNCHANGED << env, req, force, todayRO, startedOn, finishedBefore,
                  fetchOrder >>

\* run(), lines 122-137: await metafieldsSet(...), wrote = true, return
Write(r, kind) ==
  /\ pc[r] = "write"
  /\ calls' = [calls EXCEPT ![r] = Append(@, "write")]
  /\ seen' = [seen EXCEPT ![r].write = kind]
  /\ store' = ApplyWrite(store, WriteInput(items[r], ShopGID(shopId[r])), kind)
  /\ IF metafieldsSet(kind) # NoText
     THEN Throw(r, metafieldsSet(kind))
     ELSE /\ Finish(r, Result(TRUE))
          /\ UNCHANGED << rates, shopId, old, items >>
  /\ UNCHANGED << env, req, force, todayRO, startedOn, finishedBefore,
                  fetchOrder >>

Next ==
  \/ \E d \in Dates : Scheduled(d)
  \/ \E rq \in Requests : Request(rq)
  \/ \E d \in Dates : Fetch(d)
  \/ \E r \in Runs, resp \in CmcResponses : FetchRates(r, resp)
  \/ \E r \in Runs, resp \in ShopResponses : ResolveShop(r, resp)
  \/ \E r \in Runs, kind \in ReadResponses : ReadAndDiff(r, kind)
  \/ \E r \in Runs, kind \in WriteResponses : Write(r, kind)

Spec == Init /\ [][Next]_vars

\* ---------------------------------------------------------------- claims
Has(r, c) == \E i \in 1..Len(calls[r]) : calls[r][i] = c
Count(r, c) == Cardinality({ i \in 1..Len(calls[r]) : calls[r][i] = c })
\* run() was called for this handler
Started(r) == startedOn[r] # NoDate
ConfigComplete ==
  env.SHOP_URL # None /\ env.SHOP_TOKEN # None /\ env.CMC_API_KEY # None
Weekend(iso) == GetUTCDay(DateUTC(iso[1], iso[2], iso[3])) \in {0, 6}
Holiday(iso) == iso \in romaniaPublicHolidaysISO(iso[1])
NonTrading(iso) == Weekend(iso) \/ Holiday(iso)
StagedKey(its, k) == \E i \in 1..Len(its) : its[i].key = k

\* C1 as claimed: every run with force=false on a Saturday, a Sunday or a
\* holiday returns a result with skipped=true and a reason, and issues no
\* network call.
C1_SkipsOnNonTradingDay ==
  \A r \in Runs :
    (Started(r) /\ ~force[r] /\ NonTrading(startedOn[r]))
      => /\ pc[r] = "done"
         /\ out[r].tag = "result" /\ out[r].skipped /\ out[r].text # NoText
         /\ calls[r] = <<>>

\* C1 amended: a run with force=false on a Saturday, a Sunday or a holiday
\* issues no network call at all; it returns skipped=true with a reason when
\* SHOP_URL, SHOP_TOKEN and CMC_API_KEY are all present, and fails with the
\* configuration error otherwise.  The scheduled trigger always passes
\* force=false.
C1_NoCallOnNonTradingDay ==
  /\ Started("cron") => ~force["cron"]
  /\ \A r \in Runs :
       (Started(r) /\ ~force[r] /\ NonTrading(startedOn[r]))
         => /\ pc[r] = "done"
            /\ calls[r] = <<>>
            /\ ConfigComplete =>
                 (out[r].tag = "result" /\ out[r].skipped /\ out[r].text # NoText)
            /\ ~ConfigComplete => out[r].tag = "error"

\* the scheduled run was skipped on Monday 2023-01-02, a holiday
C1_Witness ==
  /\ startedOn["cron"] = <<2023, 1, 2>>
  /\ out["cron"].skipped /\ out["cron"].text[1] = "holiday"
  /\ calls["cron"] = <<>>

\* C2: a run started with force=true is never skipped, whatever the date:
\* it goes on to the price fetch, the shop lookup and the read, writes exactly
\* when something is staged, and a successful one returns skipped=false.
C2_ForcedRunNeverSkipped ==
  \A r \in Runs :
    (Started(r) /\ force[r])
      => /\ ~out[r].skipped
         /\ (pc[r] = "done" /\ ConfigComplete) => Has(r, "cmc")
         /\ out[r].tag = "result"
              => /\ ~out[r].skipped
                 /\ calls[r] \in { <<"cmc", "shop", "read">>,
                                   <<"cmc", "shop", "read", "write">> }
                 /\ Has(r, "write") <=> Len(items[r]) > 0
                 /\ out[r].wrote <=> Has(r, "write")

\* a forced manual run on Sunday 2023-01-01, a holiday, fetched, read and wrote
C2_Witness ==
  /\ force["http"] /\ startedOn["http"] = <<2023, 1, 1>>
  /\ out["http"].tag = "result" /\ out["http"].wrote
  /\ calls["http"] = <<"cmc", "shop", "read", "write">>

\* the stored value the run read is absent (no metafield, or the value ""),
\* or it is a decimal at least 1e-6 away from the fetched price
AbsentOrMoved(mf, val) ==
  \/ mf.k \in {"null", "empty"}
  \/ mf.k = "dec" /\ (val - mf.n >= Micro \/ mf.n - val >= Micro)

\* C3: in every executed run and for each symbol, the symbol is staged by the
\* diff if and only if its stored value is absent or |fetched - stored| >= 1e-6.
C3_StagedIffAbsentOrMoved ==
  [][ \A r \in Runs :
        (pc[r] = "read" /\ pc'[r] # "read" /\ out'[r].tag # "error")
          => \A sym \in SymbolSet :
               StagedKey(items'[r], ValueKey(sym))
                 <=> AbsentOrMoved(store[ValueKey(sym)], rates[r][sym]) ]_vars

\* BTC is staged at a delta of exactly 1e-6, EGLD is not at a smaller one
C3_Witness ==
  \E r \in Runs :
    /\ pc[r] = "write"
    /\ old[r]["BTC"] = Num(Micro) /\ rates[r]["BTC"] = 0
    /\ StagedKey(items[r], BTC_KEY)
    /\ old[r]["EGLD"] = Num(0) /\ rates[r]["EGLD"] = 1
    /\ ~StagedKey(items[r], EGLD_KEY)

\* C4 as claimed: when an executed run completes successfully after another
\* one has (no overlap) and both fetched the same prices, the later run stages
\* nothing and returns wrote=false.
C4_SecondRunWritesNothing ==
  \A r, q \in Runs :
    ( /\ r \in finishedBefore[q]
      /\ out[r].tag = "result" /\ ~out[r].skipped
      /\ out[q].tag = "result" /\ ~out[q].skipped
      /\ rates[r] = rates[q] )
      => (items[q] = <<>> /\ ~out[q].wrote /\ ~Has(q, "write"))

\* the diff done with the same fetched and stored value of a symbol stages
\* that symbol alike, whatever the other symbol's values are
SameDecision(r, q, sym) ==
  (rates[r][sym] = rates[q][sym] /\ old[r][sym] = old[q][sym])
    => (StagedKey(items[r], ValueKey(sym)) <=> StagedKey(items[q], ValueKey(sym)))

Diffed(r) == pc[r] = "write" \/ (pc[r] = "done" /\ out[r].tag = "result" /\ ~out[r].skipped)

\* C5: whether a symbol is staged depends only on that symbol's fetched and
\* stored values, and the write of a run leaves the value field and the date
\* field of every symbol that did not change as they were.
C5_SymbolsIndependent ==
  /\ [](\A r, q \in Runs : \A sym \in SymbolSet :
          (Diffed(r) /\ Diffed(q)) => SameDecision(r, q, sym))
  /\ [][ \A r \in Runs : \A sym \in SymbolSet :
           ( /\ pc[r] = "write" /\ pc'[r] = "done"
             /\ old[r][sym].t # "null"
             /\ (old[r][sym].t = "num" => Abs(rates[r][sym] - old[r][sym].v) < Micro) )
             => /\ store'[ValueKey(sym)] = store[ValueKey(sym)]
                /\ store'[DateKey(sym)] = store[DateKey(sym)] ]_vars

\* a run wrote BTC alone: EGLD, off by less than 1e-6, kept its value and date
C5_Witness ==
  \E r \in Runs :
    /\ out[r].tag = "result" /\ out[r].wrote
    /\ Len(items[r]) = 2 /\ StagedKey(items[r], BTC_KEY)
    /\ store[BTC_KEY] = ToFixed6(rates[r]["BTC"])
    /\ store[BTC_DATE_KEY] = DateStr(todayRO[r])
    /\ old[r]["EGLD"] = Num(0) /\ rates[r]["EGLD"] = 1
    /\ store[EGLD_KEY] = DecStr(0)
    /\ store[EGLD_DATE_KEY] = DateStr(PriorDate)

\* C6: when the provider response lacks a requested symbol, or a symbol's
\* price is missing or not a number, the run fails with an error, stages
\* nothing and issues no call after the fetch, so it writes nothing.
C6_PartialFetchFails ==
  \A r \in Runs :
    seen[r].cmc \in {"lacksSymbol", "lacksPrice"}
      => /\ pc[r] = "done" /\ out[r].tag = "error"
         /\ out[r].text[1] \in {"CMC data missing symbol", "CMC data missing price for"}
         /\ items[r] = <<>>
         /\ calls[r] = <<"cmc">>

\* a run got a response without one of the symbols and failed
C6_Witness ==
  \E r \in Runs :
    /\ seen[r].cmc = "lacksSymbol"
    /\ out[r].tag = "error" /\ out[r].text[1] = "CMC data missing symbol"
    /\ calls[r] = <<"cmc">>

\* C7: when the batch write answers with userErrors or with a status that is
\* not OK, the run fails with the error of the write, never returns
\* wrote=true, and has issued the write once.
C7_WriteErrorFailsRun ==
  \A r \in Runs :
    seen[r].write \in {"userErrors", "http"}
      => /\ pc[r] = "done" /\ out[r].tag = "error" /\ ~out[r].wrote
         /\ out[r].text = (IF seen[r].write = "http" THEN <<"GraphQL write failed">>
                           ELSE <<"metafieldsSet errors">>)
         /\ Count(r, "write") = 1
         /\ calls[r] = <<"cmc", "shop", "read", "write">>

\* a run whose write came back with userErrors failed
C7_Witness ==
  \E r \in Runs :
    /\ seen[r].write = "userErrors"
    /\ out[r].tag = "error" /\ Count(r, "write") = 1

\* C8: with SHOP_URL, SHOP_TOKEN or CMC_API_KEY absent, run() fails with an
\* error before any network call, whatever the date and the force flag; it is
\* not reported as skipped.
C8_MissingConfigFailsFirst ==
  \A r \in Runs :
    (Started(r) /\ ~ConfigComplete)
      => /\ pc[r] = "done" /\ out[r].tag = "error" /\ ~out[r].skipped
         /\ out[r].text[1] \in {"Missing SHOP_URL or SHOP_TOKEN.", "Missing CMC_API_KEY."}
         /\ calls[r] = <<>>

\* a run without CMC_API_KEY, not forced, on a Saturday: an error, not a skip
C8_Witness ==
  \E r \in Runs :
    /\ env.CMC_API_KEY = None /\ env.SHOP_URL # None /\ env.SHOP_TOKEN # None
    /\ ~force[r] /\ startedOn[r] = <<2022, 12, 31>>
    /\ out[r].tag = "error" /\ calls[r] = <<>>

\* C9 as claimed: when the read of the stored state fails, no request to the
\* pricing provider has been issued in that run, and no write is.
C9_ReadFailsBeforeFetch ==
  \A r \in Runs :
    seen[r].read \in {"http", "errors"}
      => (~Has(r, "cmc") /\ ~Has(r, "write"))

\* C9 amended: when the read of the stored state fails, the run ends in an
\* error with nothing staged and no write issued; the price fetch and the
\* shop lookup were issued, once each, before the read.
C9_ReadFailsBeforeWrite ==
  \A r \in Runs :
    seen[r].read \in {"http", "errors"}
      => /\ pc[r] = "done" /\ out[r].tag = "error"
         /\ out[r].text[1] \in {"GraphQL read failed", "GraphQL read errors"}
         /\ items[r] = <<>>
         /\ calls[r] = <<"cmc", "shop", "read">>

\* a run whose read answered with GraphQL errors failed after its fetch
C9_Witness ==
  \E r \in Runs :
    /\ seen[r].read = "errors"
    /\ out[r].tag = "error" /\ Has(r, "cmc") /\ ~Has(r, "write")

\* C10: with RUN_KEY configured, a /run request whose key differs from it or
\* is missing is answered 401 and run() is not started: no network call, the
\* store as it was; with RUN_KEY not configured every /run request starts run().
C10_KeyGuardsRun ==
  /\ [](status["http"] = 401
          => (~Started("http") /\ calls["http"] = <<>> /\ out["http"] = NoOut))
  /\ [][ (pc["http"] = "arrived" /\ pc'["http"] # "arrived"
            /\ req["http"].pathname = "/run")
           => /\ (env.RUN_KEY # None /\ req["http"].key # env.RUN_KEY)
                   => (status'["http"] = 401 /\ store' = store /\ calls' = calls)
              /\ (env.RUN_KEY # None /\ req["http"].key = env.RUN_KEY)
                   => (status'["http"] # 401 /\ Started("http")')
              /\ env.RUN_KEY = None
                   => (status'["http"] # 401 /\ Started("http")') ]_vars

\* a request was turned away with 401 and nothing else happened for it
C10_Witness ==
  /\ env.RUN_KEY = "k1" /\ ConfigComplete
  /\ status["http"] = 401 /\ pc["http"] = "done"
  /\ calls["http"] = <<>> /\ ~Started("http")


\* ---------------------------------------------------------------------
\* C11: a failed run surfaces nothing through the scheduled handler and a
\* status 500 carrying the error text through the manual handler; a manual
\* run that ends normally answers 200 with the run's result (an executed
\* run's or a skip's); a run that has ended ended with a result or an error.
C11_ErrorAsymmetry ==
  /\ status["cron"] = 0
  /\ \A r \in Runs : (pc[r] = "done" /\ Started(r)) =>
        /\ out[r].tag \in {"result", "error"}
        /\ out[r].tag = "error" <=> out[r].text # NoText /\ ~out[r].skipped
        /\ out[r].tag = "error" => ~out[r].wrote
  /\ (pc["http"] = "done" /\ Started("http")) =>
        /\ out["http"].tag = "error" <=> status["http"] = 500
        /\ out["http"].tag = "result" <=> status["http"] = 200
  /\ \A r \in Runs : pc[r] # "done" => out[r] = NoOut /\ status[r] = 0

\* both handlers ran into the same failed read: the scheduled one shows
\* nothing, the manual one answers 500
C11_Witness ==
  /\ \A r \in Runs : pc[r] = "done" /\ Started(r) /\ out[r].tag = "error"
                     /\ calls[r] = <<"cmc", "shop", "read">>
  /\ status["cron"] = 0 /\ status["http"] = 500


\* ---------------------------------------------------------------------
\* C12: a skipped run reports the holiday reason, with the holiday's name,
\* whenever its date is a public holiday, a Saturday or Sunday included; it
\* reports the weekend reason only on a weekend that is not a holiday.
C12_HolidayReasonFirst ==
  \A r \in Runs : (pc[r] = "done" /\ out[r].skipped) =>
     /\ Holiday(startedOn[r]) =>
          out[r].text = <<"holiday", holidayName(startedOn[r][1], startedOn[r])>>
     /\ (Weekend(startedOn[r]) /\ ~Holiday(startedOn[r])) =>
          out[r].text = <<"weekend">>


\* ---------------------------------------------------------------------
\* The calendar on its own: one run, of either handler, on any local date of
\* the years the Easter computation is written for, with the configuration
\* complete and no RUN_KEY set.
FirstYear == 1900
LastYear == 2099
\* Reference calendar computations, independent of the worker's:
\* the day number of a date of the Julian calendar
JulianCalendarDay(y, m, d) ==
  LET a == (14 - m) \div 12
      yy == y + 4800 - a
      mm == m + 12 * a - 3
  IN d + (153 * mm + 2) \div 5 + 365 * yy + yy \div 4 - 32083
\* Orthodox Easter: the first Sunday strictly after the Paschal full moon of
\* the Julian computus (21 March of the Julian calendar plus the epact term)
RefEaster(year) ==
  LET pfm == JulianCalendarDay(year, 3, 21) + ((19 * (year % 19) + 15) % 30)
  IN pfm + 7 - ((pfm + 1) % 7)
\* Zeller's congruence for the Gregorian calendar: 0 = Saturday, 1 = Sunday
Zeller(iso) ==
  LET m == IF iso[2] < 3 THEN iso[2] + 12 ELSE iso[2]
      y == IF iso[2] < 3 THEN iso[1] - 1 ELSE iso[1]
      K == y % 100
      J == y \div 100
  IN (iso[3] + (13 * (m + 1)) \div 5 + K + K \div 4 + J \div 4 + 5 * J) % 7
RefFixed ==
  { <<1, 1>>, <<1, 2>>, <<1, 6>>, <<1, 7>>, <<1, 24>>, <<5, 1>>, <<6, 1>>,
    <<8, 15>>, <<11, 30>>, <<12, 1>>, <<12, 25>>, <<12, 26>> }
RefHoliday(iso) ==
  \/ <<iso[2], iso[3]>> \in RefFixed
  \/ DateUTC(iso[1], iso[2], iso[3]) - RefEaster(iso[1]) \in {-2, 0, 1, 49, 50}

\* the local dates of the years FirstYear .. LastYear
CalDates ==
  { isoOf(j) : j \in DateUTC(FirstYear, 1, 1)..DateUTC(LastYear, 12, 31) }
CalRequests == { rq \in Requests : rq.key = None }
Alone(r) == \A q \in Runs \ {r} : pc[q] = "idle"

CalInit ==
  /\ Init
  /\ env = [SHOP_URL |-> "shop.myshopify.com", SHOP_TOKEN |-> "token",
            CMC_API_KEY |-> "cmckey", RUN_KEY |-> None]
  /\ store = [k \in Keys |-> Null]

CalNext ==
  \/ pc["cron"] = "idle" /\ Alone("cron") /\ \E d \in CalDates : Scheduled(d)
  \/ pc["http"] = "idle" /\ Alone("http") /\ \E rq \in CalRequests : Request(rq)
  \/ pc["http"] = "arrived" /\ Alone("http") /\ \E d \in CalDates : Fetch(d)

CalSpec == CalInit /\ [][CalNext]_vars

\* C13: for every year from 1900 to 2099 the date orthodoxEasterGregorian
\* returns is the Orthodox Easter of that year on the Gregorian calendar, as
\* the reference computation gives it, and is a Sunday of that year.
C13_EasterIsOrthodoxSunday ==
  \A r \in Runs : Started(r) =>
    LET Y == startedOn[r][1]
        F == orthodoxEasterGregorian(Y)
    IN /\ Y \in FirstYear..LastYear
       /\ F = RefEaster(Y)
       /\ Zeller(isoOf(F)) = 1
       /\ isoOf(F)[1] = Y

\* a run on Easter Sunday 2024-05-05, skipped as a non-trading day
C13_Witness ==
  /\ startedOn["cron"] = <<2024, 5, 5>>
  /\ isoOf(orthodoxEasterGregorian(2024)) = <<2024, 5, 5>>
  /\ pc["cron"] = "done" /\ out["cron"].skipped

\* C14: a non-forced run with complete configuration is skipped exactly when
\* its local date is a Saturday or Sunday or one of the year's holidays: the
\* twelve fixed dates, or Orthodox Easter F shifted by -2, 0, 1, 49 or 50 days.
C14_SkippedIffNonTrading ==
  \A r \in Runs : (Started(r) /\ ~force[r] /\ ConfigComplete) =>
    /\ pc[r] \in {"done", "fetch"}
    /\ (pc[r] = "done" /\ out[r].skipped) <=>
         (Zeller(startedOn[r]) \in {0, 1} \/ RefHoliday(startedOn[r]))
    /\ pc[r] = "fetch" <=>
         ~(Zeller(startedOn[r]) \in {0, 1} \/ RefHoliday(startedOn[r]))

\* a manual run without force skipped on Pentecost Monday 2024-06-24
C14_Witness ==
  /\ startedOn["http"] = <<2024, 6, 24>> /\ ~force["http"]
  /\ pc["http"] = "done" /\ out["http"].skipped
  /\ Zeller(startedOn["http"]) = 2


\* ---------------------------------------------------------------------
\* The numeric path on its own: one scheduled run on a trading day with the
\* configuration complete, over a wider range of fetched prices.
MaxWidePrice == 12
WidePrices == 0..MaxWidePrice
WideCmcResponses ==
  { [ok |-> TRUE, hasData |-> TRUE,
     data |-> [sym \in SymbolSet |->
                 [kind |-> "number", price |-> IF sym = "BTC" THEN b ELSE e]]] :
    b \in WidePrices, e \in WidePrices }
TradingDay == isoOf(addDays(FirstDate, 3))

PriceInit ==
  /\ Init
  /\ env = [SHOP_URL |-> "shop.myshopify.com", SHOP_TOKEN |-> "token",
            CMC_API_KEY |-> "cmckey", RUN_KEY |-> None]

PriceNext ==
  \/ Scheduled(TradingDay)
  \/ \E resp \in WideCmcResponses : FetchRates("cron", resp)
  \/ \E resp \in ShopResponses : ResolveShop("cron", resp)
  \/ \E kind \in ReadResponses : ReadAndDiff("cron", kind)
  \/ \E kind \in WriteResponses : Write("cron", kind)

PriceSpec == PriceInit /\ [][PriceNext]_vars

\* C15: the decimal string staged for a symbol, parsed back as a number,
\* differs from the price the run fetched by at most half a unit of the
\* sixth decimal place, hence by less than the threshold 1e-6.
C15_RoundTripWithinHalfUnit ==
  \A r \in Runs : \A i \in 1..Len(items[r]) : \A sym \in SymbolSet :
    items[r][i].key = ValueKey(sym) =>
      /\ items[r][i].value.k = "dec"
      /\ ParseFloat(items[r][i].value).t = "num"
      /\ 2 * Abs(ParseFloat(items[r][i].value).v - rates[r][sym]) <= Micro
      /\ Abs(ParseFloat(items[r][i].value).v - rates[r][sym]) < EPS

\* a price on a tie between two multiples of 1e-6 is staged as the larger,
\* next to a price that is written as it was fetched
C15_Witness ==
  /\ pc["cron"] = "write" /\ Len(items["cron"]) = 4
  /\ rates["cron"]["BTC"] = 5 * Micro + Micro \div 2
  /\ items["cron"][1].value = DecStr(6 * Micro)
  /\ rates["cron"]["EGLD"] = 4 * Micro
  /\ items["cron"][3].value = DecStr(4 * Micro)


\* ---------------------------------------------------------------------
Protocol == <<"cmc", "shop", "read", "write">>
Rank(p) ==
  CASE p \in {"idle", "arrived"} -> 0
    [] p = "fetch" -> 1
    [] p = "shop" -> 2
    [] p = "read" -> 3
    [] p = "write" -> 4
    [] OTHER -> 5

\* C16: a run goes through configuration check, gate, price fetch, shop
\* lookup, read, diff and an optional write, in that order: its calls are a
\* prefix of fetch, lookup, read, write, each issued at most once and each
\* only after the one before it succeeded; the write is issued only with a
\* non-empty batch; a skipped run and a run without configuration issue no
\* call; once a run has ended, by a result or by a failure, it takes no
\* further step.
C16_ProtocolOrder ==
  /\ [](\A r \in Runs :
          /\ Len(calls[r]) <= 4
          /\ calls[r] = SubSeq(Protocol, 1, Len(calls[r]))
          /\ pc[r] \in {"fetch", "shop", "read", "write"} =>
                Len(calls[r]) = Rank(pc[r]) - 1
          /\ calls[r] # <<>> =>
                /\ ConfigComplete
                /\ force[r] \/ ~NonTrading(startedOn[r])
          /\ Has(r, "shop") => seen[r].cmc = "complete"
          /\ Has(r, "read") => seen[r].shop = "ok"
          /\ Has(r, "write") => seen[r].read = "ok"
          /\ pc[r] = "write" => Len(items[r]) > 0
          /\ (pc[r] = "done" /\ out[r].tag = "result") =>
                /\ out[r].skipped => calls[r] = <<>>
                /\ ~out[r].skipped =>
                      /\ Len(calls[r]) = (IF out[r].wrote THEN 4 ELSE 3)
                      /\ out[r].wrote => Len(items[r]) > 0
                      /\ ~out[r].wrote => Len(items[r]) = 0)
  /\ [][\A r \in Runs :
          /\ Rank(pc'[r]) >= Rank(pc[r])
          /\ calls'[r] # calls[r] =>
                /\ Rank(pc[r]) = Len(calls[r]) + 1
                /\ calls'[r] = Append(calls[r], Protocol[Rank(pc[r])])
          /\ pc[r] = "done" =>
                /\ pc'[r] = "done" /\ calls'[r] = calls[r]
                /\ out'[r] = out[r] /\ status'[r] = status[r]]_vars

\* one run went the whole way and wrote, while the other ended at a failed
\* shop lookup without reading or writing
C16_Witness ==
  /\ pc["cron"] = "done" /\ out["cron"].wrote /\ calls["cron"] = Protocol
  /\ pc["http"] = "done" /\ out["http"].tag = "error"
  /\ calls["http"] = <<"cmc", "shop">> /\ seen["http"].shop = "http"


\* ---------------------------------------------------------------------
DateKeys == {BTC_DATE_KEY, EGLD_DATE_KEY}

\* C17: a run's batch holds a symbol's value entry exactly when it holds
\* that symbol's date entry, so it has 0, 2 or 4 entries; every date entry
\* carries the run's local date; every entry of the mutation's input carries
\* the owner id of the one shop the run looked up; and a symbol's stored
\* date changes only by the write of a run whose batch also holds that
\* symbol's value, stored with it.
C17_ValueAndDateTogether ==
  /\ [](\A r \in Runs :
          /\ Len(items[r]) \in {0, 2, 4}
          /\ \A sym \in SymbolSet :
               StagedKey(items[r], ValueKey(sym)) <=> StagedKey(items[r], DateKey(sym))
          /\ \A i \in 1..Len(items[r]) :
               /\ items[r][i].key \in Keys
               /\ items[r][i].key \in DateKeys =>
                     /\ items[r][i].value = DateStr(todayRO[r])
                     /\ todayRO[r] = startedOn[r]
               /\ \A j \in 1..Len(items[r]) :
                     items[r][i].key = items[r][j].key => i = j
          /\ Len(items[r]) > 0 =>
               LET input == WriteInput(items[r], ShopGID(shopId[r]))
               IN /\ shopId[r] # None
                  /\ Len(input) = Len(items[r])
                  /\ \A i \in 1..Len(input) : input[i].ownerId = ShopGID("1"))
  /\ [][\A sym \in SymbolSet :
          store'[DateKey(sym)] # store[DateKey(sym)] =>
            \E r \in Runs :
              /\ pc[r] = "write" /\ pc'[r] = "done" /\ seen'[r].write = "ok"
              /\ StagedKey(items[r], ValueKey(sym))
              /\ store'[DateKey(sym)] = DateStr(startedOn[r])
              /\ store'[ValueKey(sym)] = ToFixed6(rates[r][sym])]_vars

\* a run wrote one symbol only: its value and its date changed together and
\* the other symbol's two fields stayed as they were
C17_Witness ==
  /\ pc["cron"] = "done" /\ out["cron"].wrote /\ Len(items["cron"]) = 2
  /\ pc["http"] = "idle"
  /\ StagedKey(items["cron"], EGLD_KEY) /\ StagedKey(items["cron"], EGLD_DATE_KEY)
  /\ store[EGLD_DATE_KEY] = DateStr(startedOn["cron"])
  /\ store[EGLD_KEY] = ToFixed6(rates["cron"]["EGLD"])
  /\ store[BTC_DATE_KEY] = DateStr(PriorDate)


\* ---------------------------------------------------------------------
\* C18: the worker has no mutual exclusion between runs: whatever the other
\* handler's run is doing, a run that is waiting to fetch, to look up the
\* shop, to read or to write can take that step, so two runs can be between
\* their read and their write at once, and the run that fetched the older
\* price can write last.
C18_NoMutualExclusion ==
  \A r \in Runs :
    /\ pc[r] = "fetch" => \A resp \in CmcResponses : ENABLED FetchRates(r, resp)
    /\ pc[r] = "shop" => \A resp \in ShopResponses : ENABLED ResolveShop(r, resp)
    /\ pc[r] = "read" => \A kind \in ReadResponses : ENABLED ReadAndDiff(r, kind)
    /\ pc[r] = "write" => \A kind \in WriteResponses : ENABLED Write(r, kind)

\* both runs read the store while the value was absent, so both were between
\* read and write together; the scheduled run fetched first, the manual run
\* fetched a different price later and wrote it, and the scheduled run's
\* write then replaced the newer value by the older one
C18_Witness ==
  /\ fetchOrder = <<"cron", "http">>
  /\ \A r \in Runs : /\ pc[r] = "done" /\ out[r].wrote /\ seen[r].write = "ok"
                     /\ old[r]["BTC"] = NullNum
                     /\ StagedKey(items[r], BTC_KEY)
                     /\ finishedBefore[r] = {}
  /\ ToFixed6(rates["cron"]["BTC"]) # ToFixed6(rates["http"]["BTC"])
  /\ store[BTC_KEY] = ToFixed6(rates["cron"]["BTC"])


\* ---------------------------------------------------------------------
\* C19: whenever a run's write step ends in a result with wrote = true, the
\* store holds, right after that step, every value of the run's batch,
\* whatever the write response was; and a result with wrote = false comes
\* only from a run that issued no write.
C19_WroteMeansStored ==
  /\ [](\A r \in Runs :
          (pc[r] = "done" /\ out[r].tag = "result" /\ ~out[r].wrote) => ~Has(r, "write"))
  /\ [][\A r \in Runs :
          (pc[r] = "write" /\ pc'[r] = "done" /\ out'[r].wrote) =>
             \A i \in 1..Len(items[r]) : store'[items[r][i].key] = items[r][i].value]_vars


\* ---------------------------------------------------------------------
\* the handlers other than r are not running and did not overlap r's run
RanAlone(r) ==
  \A q \in Runs \ {r} : pc[q] \in {"idle", "arrived"} \/ q \in finishedBefore[r]

\* C20: when runs do not overlap, once an executed run has completed with a
\* result, each symbol's stored value is a number within less than 1e-6 of
\* the price that run fetched, whatever the store held at first: nothing, an
\* empty string, a number, or a string that does not parse as a number.
C20_ConvergesToFetched ==
  \A r \in Runs :
    (pc[r] = "done" /\ out[r].tag = "result" /\ ~out[r].skipped /\ RanAlone(r)) =>
      \A sym \in SymbolSet :
        /\ ParseFloat(store[ValueKey(sym)]).t = "num"
        /\ Abs(ParseFloat(store[ValueKey(sym)]).v - rates[r][sym]) < EPS

====
